---- MODULE Spec2Model ----
(***************************************************************************)
(* A model of bevy_mod_raycast's src/lib.rs: the RayCastSource and         *)
(* RayCastMesh components, the update_raycast system and the               *)
(* ray_mesh_intersection scan.                                             *)
(*                                                                         *)
(* Geometry is exact integer geometry.  Points and vectors are triples of  *)
(* integers.  The scenes are chosen so that every quantity the code        *)
(* computes in f32 is an integer here: rays run along the z axis,          *)
(* triangles lie in planes z = c, transforms are a translation, a number   *)
(* of quarter turns about z and a per-axis integer scale.  Where the code  *)
(* compares a square root with a distance, the model compares the squares. *)
(***************************************************************************)
EXTENDS Integers, Sequences, FiniteSets, TLC

\* ------------------------------------------------------------------ bounds
NumSources == 2
NumObjects == 2
MaxEnvSteps == 2
MaxTriangles == 3

\* ------------------------------------------------------------- Option<T>
None == [some |-> FALSE]
Some(v) == [some |-> TRUE, val |-> v]

\* --------------------------------------------------------------- vectors
VAdd(a, b) == <<a[1] + b[1], a[2] + b[2], a[3] + b[3]>>
VSub(a, b) == <<a[1] - b[1], a[2] - b[2], a[3] - b[3]>>
VMul(a, b) == <<a[1] * b[1], a[2] * b[2], a[3] * b[3]>>
Dot(a, b) == a[1] * b[1] + a[2] * b[2] + a[3] * b[3]
Cross(a, b) ==
  <<a[2] * b[3] - a[3] * b[2], a[3] * b[1] - a[1] * b[3], a[1] * b[2] - a[2] * b[1]>>
LengthSquared(a) == Dot(a, a)
Abs(x) == IF x < 0 THEN -x ELSE x
Max2(x, y) == IF x >= y THEN x ELSE y
MaxElement(a) == Max2(a[1], Max2(a[2], a[3]))
\* Vec3::length: the square root, exact on the scenes of the model (the
\* vectors it is applied to lie along an axis).
Length(a) == CHOOSE r \in 0..(Abs(a[1]) + Abs(a[2]) + Abs(a[3])) :
               r * r <= LengthSquared(a) /\ LengthSquared(a) < (r + 1) * (r + 1)

\* ------------------------------------------------------- GlobalTransform
\* A quarter turn about the z axis, n times.
RECURSIVE RotateZ(_, _)
RotateZ(n, p) == IF n = 0 THEN p ELSE RotateZ(n - 1, <<-p[2], p[1], p[3]>>)
\* compute_matrix().transform_point3(p): scale, then rotate, then translate.
TransformPoint(t, p) == VAdd(t.translation, RotateZ(t.rot, VMul(t.scale, p)))
IdentityTransform == [translation |-> <<0, 0, 0>>, rot |-> 0, scale |-> <<1, 1, 1>>]

\* ----------------------------------------------------------------- Ray3d
Ray3dNew(origin, direction) == [origin |-> origin, direction |-> direction]

\* f32::MAX, the initial min_pick_distance: above every distance of the model,
\* and small enough for its square to stay within TLC's integers.
F32_MAX == 30000

\* ------------------------------------------------------------ the kernel
\* ray_triangle_intersection (Moeller-Trumbore, both facings): the hit point,
\* or None for a ray parallel to the triangle's plane, a point outside the
\* triangle or a hit behind the ray's origin.
Barycentric(ray, det, u, v, t) ==
  IF det = 0 \/ u < 0 \/ u > det \/ v < 0 \/ u + v > det \/ t <= 0
  THEN None
  ELSE Some(<<ray.origin[1] + (t * ray.direction[1]) \div det,
              ray.origin[2] + (t * ray.direction[2]) \div det,
              ray.origin[3] + (t * ray.direction[3]) \div det>>)
\* Both facings: a negative determinant changes the sign of every term.
BothFacings(ray, det, u, v, t) ==
  IF det < 0 THEN Barycentric(ray, -det, -u, -v, -t) ELSE Barycentric(ray, det, u, v, t)
EdgeTerms(ray, e1, e2, tv) ==
  BothFacings(ray,
              Dot(e1, Cross(ray.direction, e2)),
              Dot(tv, Cross(ray.direction, e2)),
              Dot(ray.direction, Cross(tv, e1)),
              Dot(e2, Cross(tv, e1)))
ray_triangle_intersection(ray, tri) ==
  EdgeTerms(ray, VSub(tri[2], tri[1]), VSub(tri[3], tri[1]), VSub(ray.origin, tri[1]))

IntersectionNew(point, distance, triangle) ==
  [origin |-> point, distance |-> distance, triangle |-> triangle]

\* The world-space triangle of the k-th chunk of three indices.
WorldTriangle(mesh_to_world, vertex_positions, indices, k) ==
  [i \in 1..3 |-> TransformPoint(mesh_to_world, vertex_positions[indices[3 * (k - 1) + i] + 1])]

Min2(x, y) == IF x <= y THEN x ELSE y
\* The square of the fold at lines 366-369: the least distance from the ray's
\* origin to a vertex of the triangle.
NearestVertexSquared(tri, pick_ray) ==
  Min2(LengthSquared(VSub(tri[1], pick_ray.origin)),
       Min2(LengthSquared(VSub(tri[2], pick_ray.origin)),
            LengthSquared(VSub(tri[3], pick_ray.origin))))

\* Line 366-373: skip the triangle when its nearest vertex is farther than
\* the best distance so far.
Pruned(tri, pick_ray, min_pick_distance) ==
  NearestVertexSquared(tri, pick_ray) > min_pick_distance * min_pick_distance

\* One iteration of the loop over indices.chunks(3), on the pair
\* (min_pick_distance, pick_intersection).
\* Lines 378-383: keep the hit when it is closer than the best so far.
KeepCloser(acc, point, distance, tri) ==
  IF distance < acc.min_pick_distance
  THEN [min_pick_distance |-> distance,
        pick_intersection |-> Some(IntersectionNew(point, distance, tri))]
  ELSE acc
\* Lines 375-384.
RecordHit(acc, hit, tri, pick_ray) ==
  IF ~hit.some THEN acc
  ELSE KeepCloser(acc, hit.val, Abs(Length(VSub(hit.val, pick_ray.origin))), tri)
ScanTriangle(acc, tri, pick_ray) ==
  IF Pruned(tri, pick_ray, acc.min_pick_distance) THEN acc
  ELSE RecordHit(acc, ray_triangle_intersection(pick_ray, tri), tri, pick_ray)

RECURSIVE ScanFrom(_, _, _, _, _, _)
ScanFrom(acc, k, mesh_to_world, vertex_positions, pick_ray, indices) ==
  IF 3 * k > Len(indices) THEN acc
  ELSE ScanFrom(ScanTriangle(acc, WorldTriangle(mesh_to_world, vertex_positions, indices, k), pick_ray),
                k + 1, mesh_to_world, vertex_positions, pick_ray, indices)

\* A variant that scans the whole chunks of a list of any length, which C17
\* tells apart.
ray_mesh_intersection_WholeChunks(mesh_to_world, vertex_positions, pick_ray, indices) ==
  ScanFrom([min_pick_distance |-> F32_MAX, pick_intersection |-> None],
           1, mesh_to_world, vertex_positions, pick_ray, indices).pick_intersection

ray_mesh_intersection(mesh_to_world, vertex_positions, pick_ray, indices) ==
  IF Len(indices) % 3 = 0
  THEN ScanFrom([min_pick_distance |-> F32_MAX, pick_intersection |-> None],
                1, mesh_to_world, vertex_positions, pick_ray, indices).pick_intersection
  ELSE None

\* -------------------------------------------------------------- the scene
Srcs == 1..NumSources
Objs == 1..NumObjects
WindowIds == {1, 2}
\* Cursor positions in pixels, in a window of 2 x 2 pixels: the centre and the
\* middle of the right edge.
Positions == {<<1, 1>>, <<2, 1>>}
WindowSize == <<2, 2>>
\* A Camera: its window and an orthographic projection, given by the half
\* extents of its view volume (the inverse projection scales x and y by them).
MainCamera == [window |-> 1, half |-> <<16, 1>>]

TriangleMesh ==
  [topology |-> "TriangleList",
   position |-> Some([format |-> "Float3",
                      values |-> << <<-2, -2, 0>>, <<2, -2, 0>>, <<0, 2, 0>> >>]),
   indices |-> Some([width |-> "U32", vec |-> <<0, 1, 2>>])]
\* A small triangle in front of a large one (seen from a ray that runs down -z
\* of the mesh, the large one is the nearer).
SlabMesh ==
  [topology |-> "TriangleList",
   position |-> Some([format |-> "Float3",
                      values |-> << <<-2, -2, 2>>, <<2, -2, 2>>, <<0, 2, 2>>,
                                    <<-40, -40, 0>>, <<40, -40, 0>>, <<0, 40, 0>> >>]),
   indices |-> Some([width |-> "U16", vec |-> <<0, 1, 2, 3, 4, 5>>])]
\* Assets<Mesh>: the handles that resolve, and their meshes.
Meshes ==
  [tri |-> TriangleMesh,
   slab |-> SlabMesh,
   lines |-> [TriangleMesh EXCEPT !.topology = "LineList"],
   nopos |-> [TriangleMesh EXCEPT !.position = None],
   float2 |-> [TriangleMesh EXCEPT !.position = Some([format |-> "Float2", values |-> <<>>])],
   noidx |-> [TriangleMesh EXCEPT !.indices = None],
   odd |-> [TriangleMesh EXCEPT !.indices = Some([width |-> "U32", vec |-> <<0, 1, 2, 0>>])]]
\* Handle<Mesh> values; "gone" resolves to no asset.
Handles == (DOMAIN Meshes) \cup {"gone"}
MeshesGet(mesh_handle) ==
  IF mesh_handle \in DOMAIN Meshes THEN Some(Meshes[mesh_handle]) ELSE None

\* BoundVol: absent (the entity has no BoundVol), or present with its sphere
\* not yet computed, or present with a sphere (local origin and radius).
NoBoundVol == None
BoundVolUnset == Some([sphere |-> None])
BoundVolSphere(origin, radius) == Some([sphere |-> Some([origin |-> origin, radius |-> radius])])
BoundVols == {NoBoundVol, BoundVolUnset, BoundVolSphere(<<0, 0, 0>>, 3)}

\* The transforms the scene gives an object besides its initial one.
ObjectTransforms ==
  {[translation |-> <<32, 0, 3>>, rot |-> 0, scale |-> <<1, 1, 1>>],
   [translation |-> <<0, 0, 9>>, rot |-> 1, scale |-> <<2, 1, 1>>]}

\* RayCastMethod
CameraCursor(update_picks, event_reader) ==
  [kind |-> "CameraCursor", update_picks |-> update_picks, event_reader |-> event_reader]
CameraScreenSpace(coordinates_ndc) ==
  [kind |-> "CameraScreenSpace", coordinates_ndc |-> coordinates_ndc]
TransformMethod == [kind |-> "Transform"]
\* UpdateOn
EveryFrame(cached_pos) == [kind |-> "EveryFrame", cached_pos |-> cached_pos]
OnMouseEvent == [kind |-> "OnMouseEvent"]
\* EventReader::default(): nothing read yet.
EventReaderDefault == 0
\* The methods an application assigns to the public field cast_method.
Methods ==
  {CameraCursor(EveryFrame(<<1, 1>>), EventReaderDefault),
   CameraCursor(OnMouseEvent, EventReaderDefault),
   CameraScreenSpace(<<0, 0>>),
   TransformMethod}

\* RayCastSource::new
RayCastSourceNew(pick_method) ==
  [cast_method |-> pick_method, ray |-> None, intersections |-> <<>>]
\* RayCastMesh::default
RayCastMeshDefault == [intersection |-> None]

\* ------------------------------------------------------------- accessors
intersect_list(source) ==
  IF source.intersections = <<>> THEN None ELSE Some(source.intersections)
\* A variant that returns the last entry, which C5 tells apart.
intersect_top_Last(source) ==
  IF source.intersections = <<>> THEN None
  ELSE Some(source.intersections[Len(source.intersections)])
intersect_top(source) ==
  IF source.intersections = <<>> THEN None ELSE Some(Head(source.intersections))
intersection(pickable) == pickable.intersection

\* ----------------------------------------------------------------- state
VARIABLES
  sources,     \* Srcs -> the RayCastSource and the Camera and GlobalTransform beside it
  pickables,   \* Objs -> the RayCastMesh of each pickable entity
  objects,     \* Objs -> Visible, BoundVol, GlobalTransform and Handle<Mesh>
  cursor,      \* Events<CursorMoved>: the two buffers and the number of events sent
  windows,     \* Windows: the ids of the windows that exist
  pc,          \* "idle" | "panicked"
  steps,       \* Srcs -> what the last run of update_raycast did for the source
  envSteps,    \* the number of changes the application has made so far
  scan,        \* the arguments and the result of a call of ray_mesh_intersection
  cull,        \* one entity, a ray, and what the culling closure and the mesh test say
  par,         \* a fixed scene and ray, and the lists of the runs made on them
  call         \* a call of a constructor of RayCastSource: its stack and its result

\* The variables of the specifications of single functions.
probes == <<scan, cull, par, call>>
vars == <<sources, pickables, objects, cursor, windows, pc, steps, envSteps, scan, cull, par, call>>

\* ---------------------------------------------------------- cursor events
\* The events still held by the two buffers, oldest first.
Buffered(events) == events.old \o events.new
\* The events an EventReader has not yet seen, oldest first.
Unread(event_reader, events) ==
  LET held == Buffered(events)
      n == Min2(Len(held), events.event_count - event_reader)
  IN SubSeq(held, Len(held) - n + 1, Len(held))
\* EventReader::latest: the newest event not yet seen, if any.
Latest(event_reader, events) ==
  LET unread == Unread(event_reader, events)
  IN IF unread = <<>> THEN None ELSE Some(unread[Len(unread)])

\* ---------------------------------------------------------- ray generation
\* The outcome of the match at lines 127-234: a ray, the continue of line 160,
\* or a panic; with the cast method as the match leaves it.
GenRay(method, ray, pos) == [kind |-> "ray", cast_method |-> method, ray |-> Some(ray), pos |-> pos]
GenSkip(method) == [kind |-> "skip", cast_method |-> method, ray |-> None, pos |-> None]
GenPanic(method, pos) == [kind |-> "panic", cast_method |-> method, ray |-> None, pos |-> pos]

\* Lines 171-189 and 199-215: unproject the near and the far point.
Unproject(camera, camera_transform, ndc) ==
  LET cursor_pos_near == TransformPoint(camera_transform,
                                        <<camera.half[1] * ndc[1], camera.half[2] * ndc[2], -1>>)
      cursor_pos_far == TransformPoint(camera_transform,
                                       <<camera.half[1] * ndc[1], camera.half[2] * ndc[2], 1>>)
  IN Ray3dNew(cursor_pos_near, VSub(cursor_pos_far, cursor_pos_near))

\* Line 171: (cursor_pos_screen / screen_size) * 2.0 - (1, 1).
CursorNdc(cursor_pos_screen, screen_size) ==
  <<(2 * cursor_pos_screen[1]) \div screen_size[1] - 1,
    (2 * cursor_pos_screen[2]) \div screen_size[2] - 1>>

\* Lines 136-145: the latest unread event, if it is for the camera's window.
CursorLatest(event_reader, events, camera) ==
  LET latest == Latest(event_reader, events)
  IN IF latest.some /\ latest.val.id = camera.window THEN latest ELSE None

\* Lines 129-190.
CameraCursorRay(source, events, wins) ==
  IF ~source.camera.some THEN GenPanic(source.cast_method, None)
  ELSE
    LET camera == source.camera.val
        update_picks == source.cast_method.update_picks
        cursor_latest == CursorLatest(source.cast_method.event_reader, events, camera)
        \* latest() has moved the reader to the end of the events.
        advanced == CameraCursor(update_picks, events.event_count)
        method == IF update_picks.kind = "EveryFrame" /\ cursor_latest.some
                  THEN CameraCursor(EveryFrame(cursor_latest.val.position), EventReaderDefault)
                  ELSE advanced
        cursor_pos_screen == IF cursor_latest.some THEN cursor_latest.val.position
                             ELSE update_picks.cached_pos
    IN IF update_picks.kind = "OnMouseEvent" /\ ~cursor_latest.some THEN GenSkip(method)
       ELSE IF camera.window \notin wins THEN GenPanic(method, Some(cursor_pos_screen))
       ELSE IF ~source.transform.some THEN GenPanic(method, Some(cursor_pos_screen))
       ELSE GenRay(method,
                   Unproject(camera, source.transform.val, CursorNdc(cursor_pos_screen, WindowSize)),
                   Some(cursor_pos_screen))

\* Lines 192-216.
CameraScreenSpaceRay(source) ==
  IF ~source.camera.some THEN GenPanic(source.cast_method, None)
  ELSE IF ~source.transform.some THEN GenPanic(source.cast_method, None)
  ELSE GenRay(source.cast_method,
              Unproject(source.camera.val, source.transform.val, source.cast_method.coordinates_ndc),
              None)

\* A variant without the panic of lines 222-224, which C8 tells apart.
TransformRay_NoExpect(source) ==
  IF ~source.transform.some THEN GenSkip(source.cast_method)
  ELSE GenRay(source.cast_method,
              Ray3dNew(source.transform.val.translation,
                       VSub(TransformPoint(source.transform.val, <<0, 0, 1>>),
                            source.transform.val.translation)),
              None)

\* Lines 218-233.
TransformRay(source) ==
  IF ~source.transform.some THEN GenPanic(source.cast_method, None)
  ELSE LET pick_position == TransformPoint(source.transform.val, <<0, 0, 1>>)
           source_origin == source.transform.val.translation
       IN GenRay(source.cast_method, Ray3dNew(source_origin, VSub(pick_position, source_origin)), None)

\* ---------------------------------------------------------------- culling
\* A variant that discards an entity without a sphere, which C9 tells apart.
BoundHit_NeedsSphere(bound_vol, transform, ray) ==
  bound_vol.some /\ bound_vol.val.sphere.some

\* Lines 250-270, with both sides of det < 0.0 multiplied by 100^2 (the factor
\* 1.01 is 101/100).
BoundHit(bound_vol, transform, ray) ==
  IF bound_vol.some
  THEN IF bound_vol.val.sphere.some
       THEN LET sphere == bound_vol.val.sphere.val
                scaled_radius100 == 101 * sphere.radius * MaxElement(transform.scale)
                translated_origin == VAdd(VMul(sphere.origin, transform.scale), transform.translation)
                to_origin == VSub(ray.origin, translated_origin)
                det10000 == 10000 * Dot(ray.direction, to_origin) * Dot(ray.direction, to_origin)
                            - (10000 * LengthSquared(to_origin) - scaled_radius100 * scaled_radius100)
            IN ~(det10000 < 0)
       ELSE TRUE
  ELSE TRUE

\* A variant that does not read the visibility, which C10 tells apart.
Survives_AnyVisibility(object, ray) == BoundHit(object.bound_vol, object.transform, ray)

\* Lines 248-276: the closure of the culling pass, on one entity.
Survives(object, ray) == object.visible /\ BoundHit(object.bound_vol, object.transform, ray)

\* Lines 244-279: the entities the culling pass collects.  The code only asks
\* culled_list.contains(&entity), so the order of the list is not kept.
CulledList(objs, ray) == {entity \in Objs : Survives(objs[entity], ray)}

\* -------------------------------------------------------------- mesh pass
\* Lines 304-309: a 16-bit index list is widened to 32 bits, which keeps
\* every value.
IndicesAsU32(indices) == [i \in DOMAIN indices.vec |-> indices.vec[i]]

MeshPanic == [kind |-> "panic", val |-> None]
MeshResult(new_intersection) == [kind |-> "result", val |-> new_intersection]
\* A variant that records no hit for a mesh it cannot read, which C13 tells
\* apart.
MeshIntersection_NoHit(mesh, transform, ray) ==
  IF \/ mesh.topology /= "TriangleList"
     \/ ~mesh.position.some
     \/ mesh.position.val.format /= "Float3"
     \/ ~mesh.indices.some
  THEN MeshResult(None)
  ELSE MeshResult(ray_mesh_intersection(transform, mesh.position.val.values, ray,
                                        IndicesAsU32(mesh.indices.val)))

\* Lines 288-327, for a mesh the handle resolved to: a panic or the new
\* intersection.
MeshIntersection(mesh, transform, ray) ==
  IF mesh.topology /= "TriangleList" THEN MeshPanic
  ELSE IF ~mesh.position.some THEN MeshPanic
  ELSE IF mesh.position.val.format /= "Float3" THEN MeshPanic
  ELSE IF ~mesh.indices.some THEN MeshPanic
  ELSE MeshResult(ray_mesh_intersection(transform, mesh.position.val.values, ray,
                                        IndicesAsU32(mesh.indices.val)))

\* A variant that pushes the hit and leaves the entity's RayCastMesh as it
\* was, which C15 tells apart.
StoreResult_ListOnly(acc, entity, new_intersection) ==
  [acc EXCEPT !.tested = @ \cup {entity},
              !.intersections = IF new_intersection.some
                                THEN Append(@, <<entity, new_intersection.val>>) ELSE @,
              !.pushed = IF new_intersection.some
                         THEN @ \cup {<<entity, new_intersection.val>>} ELSE @]

\* A variant that pushes a hit twice, which C18 tells apart.
StoreResult_PushTwice(acc, entity, new_intersection) ==
  [acc EXCEPT !.pickables[entity].intersection = new_intersection,
              !.tested = @ \cup {entity},
              !.intersections = IF new_intersection.some
                                THEN @ \o <<<<entity, new_intersection.val>>,
                                            <<entity, new_intersection.val>>>>
                                ELSE @,
              !.pushed = IF new_intersection.some
                         THEN @ \cup {<<entity, new_intersection.val>>} ELSE @]

\* Lines 317-320: the result is stored on the entity, and pushed when it is a hit.
StoreResult(acc, entity, new_intersection) ==
  [acc EXCEPT !.pickables[entity].intersection = new_intersection,
              !.tested = @ \cup {entity},
              !.intersections = IF new_intersection.some
                                THEN Append(@, <<entity, new_intersection.val>>) ELSE @,
              !.pushed = IF new_intersection.some
                         THEN @ \cup {<<entity, new_intersection.val>>} ELSE @]

\* Lines 288-327, on the outcome r of MeshIntersection.
VisitResolved(entered, entity, r) ==
  IF r.kind = "panic" THEN [entered EXCEPT !.panicked = TRUE]
  ELSE StoreResult(entered, entity, r.val)
\* Line 287, on the mesh the handle resolves to, if any.
VisitMesh(entered, entity, mesh, transform, ray) ==
  IF ~mesh.some THEN entered
  ELSE VisitResolved(entered, entity, MeshIntersection(mesh.val, transform, ray))
\* Lines 281-329: one iteration of the loop over mesh_query.
VisitEntity(acc, entity, objs, culled_list, ray) ==
  IF entity \notin culled_list THEN acc
  ELSE VisitMesh([acc EXCEPT !.visited = @ \cup {entity}], entity,
                 MeshesGet(objs[entity].mesh_handle), objs[entity].transform, ray)

\* The loop over mesh_query, in the order the query yields the entities; a
\* panic ends it.
RECURSIVE MeshPass(_, _, _, _, _, _)
MeshPass(acc, k, order, objs, culled_list, ray) ==
  IF k > Len(order) \/ acc.panicked THEN acc
  ELSE MeshPass(VisitEntity(acc, order[k], objs, culled_list, ray),
                k + 1, order, objs, culled_list, ray)

\* ------------------------------------------------------------------ sort
\* Lines 332-336: sort_by is a stable sort; the distances are never NaN
\* (line 379 stores only a distance below f32::MAX), so partial_cmp is total.
RECURSIVE InsertByDistance(_, _)
InsertByDistance(sorted, entry) ==
  IF sorted = <<>> THEN <<entry>>
  ELSE IF sorted[Len(sorted)][2].distance <= entry[2].distance THEN Append(sorted, entry)
  ELSE Append(InsertByDistance(SubSeq(sorted, 1, Len(sorted) - 1), entry), sorted[Len(sorted)])

RECURSIVE SortFrom(_, _, _)
SortFrom(sorted, k, list) ==
  IF k > Len(list) THEN sorted ELSE SortFrom(InsertByDistance(sorted, list[k]), k + 1, list)

\* A variant that leaves the list in the order of the pushes, which C1 tells
\* apart.
SortByDistance_AsPushed(list) == list

SortByDistance(list) == SortFrom(<<>>, 1, list)

\* A variant that keeps the entries of the run before, which C2 tells apart.
ClearIntersections_Keep(list) == list

\* A variant that truncates the list to its first entry, which C14 tells apart.
ClearIntersections_Truncate(list) == IF list = <<>> THEN <<>> ELSE <<Head(list)>>

\* Line 237.
ClearIntersections(list) == <<>>

\* A variant that drops the ray and the list of a skipped source, which C7
\* tells apart.
SkipSource_Reset(source) == [source EXCEPT !.ray = None, !.intersections = <<>>]

\* Line 160: continue; the assignment to pick_source.ray is not reached.
SkipSource(source) == source

\* ---------------------------------------------------- one source, one run
\* The orders in which mesh_query can yield the entities.
Orders == {order \in [1..NumObjects -> Objs] : \A i, j \in 1..NumObjects : order[i] = order[j] => i = j}

\* The record of one iteration of the loop over the sources: how it ended
\* ("none": the run did not come to the source), the screen position it used,
\* the events its reader had not seen, the source and the RayCastMesh
\* components before and the components after it, and the locals of the
\* loop body.
NoStep ==
  [outcome |-> "none", pos |-> None, unread |-> <<>>, before |-> None,
   pickables_before |-> None, pickables_after |-> None, culled_list |-> {},
   visited |-> {}, tested |-> {}, pushed |-> {}, order |-> <<>>]

\* Lines 331-336 and the end of the loop body, on the outcome acc of the
\* mesh pass.
CastResult(step, matched, acc) ==
  IF acc.panicked
  THEN [source |-> [matched EXCEPT !.intersections = acc.intersections],
        pickables |-> acc.pickables,
        step |-> [step EXCEPT !.visited = acc.visited, !.tested = acc.tested,
                              !.pushed = acc.pushed, !.outcome = "panic_mesh",
                              !.pickables_after = Some(acc.pickables)]]
  ELSE [source |-> [matched EXCEPT !.intersections = SortByDistance(acc.intersections)],
        pickables |-> acc.pickables,
        step |-> [step EXCEPT !.visited = acc.visited, !.tested = acc.tested,
                              !.pushed = acc.pushed, !.outcome = "cast",
                              !.pickables_after = Some(acc.pickables)]]

\* Lines 236-337: the source has a ray.
CastSource(step, matched, ray, order, picks, objs, culled_list) ==
  CastResult([step EXCEPT !.culled_list = culled_list, !.order = order],
             [matched EXCEPT !.ray = Some(ray)],
             MeshPass([intersections |-> ClearIntersections(matched.intersections),
                       pickables |-> picks, visited |-> {}, tested |-> {},
                       pushed |-> {}, panicked |-> FALSE],
                      1, order, objs, culled_list, ray))

\* The body of the loop at line 126 for one source, on the outcome gen of the
\* match on its cast method: the source, the RayCastMesh components and the
\* record of the step after it.
RunMatched(step, matched, gen, order, picks, objs) ==
  IF gen.kind = "panic"
  THEN [source |-> matched, pickables |-> picks, step |-> [step EXCEPT !.outcome = "panic_ray"]]
  ELSE IF gen.kind = "skip"
  THEN [source |-> SkipSource(matched), pickables |-> picks,
        step |-> [step EXCEPT !.outcome = "skipped"]]
  ELSE CastSource(step, matched, gen.ray.val, order, picks, objs, CulledList(objs, gen.ray.val))

RunSource(source, gen, order, picks, objs, unread) ==
  RunMatched([NoStep EXCEPT !.pos = gen.pos, !.unread = unread,
                            !.before = Some(source), !.pickables_before = Some(picks),
                            !.pickables_after = Some(picks)],
             [source EXCEPT !.cast_method = gen.cast_method],
             gen, order, picks, objs)

Panicked(outcome) == outcome \in {"panic_ray", "panic_mesh"}

\* Lines 127-234: the match on the cast method.
GenerateRay(source, events, wins) ==
  IF source.cast_method.kind = "CameraCursor" THEN CameraCursorRay(source, events, wins)
  ELSE IF source.cast_method.kind = "CameraScreenSpace" THEN CameraScreenSpaceRay(source)
  ELSE TransformRay(source)

\* The events the reader of a source has not seen (none for a method
\* without a reader).
UnreadBy(source, events) ==
  IF source.cast_method.kind = "CameraCursor"
  THEN Unread(source.cast_method.event_reader, events) ELSE <<>>

\* A variant in which the clear of the list reaches the other sources, which
\* C19 tells apart.
AfterSource_ClearOthers(world, s, run) ==
  [sources |-> [t \in DOMAIN world.sources |->
                  IF t = s THEN run.source
                  ELSE [world.sources[t] EXCEPT !.intersections = <<>>]],
   pickables |-> run.pickables,
   steps |-> [world.steps EXCEPT ![s] = run.step],
   panicked |-> Panicked(run.step.outcome)]

\* The world after the loop body left the source s as run says.
AfterSource(world, s, run) ==
  [sources |-> [world.sources EXCEPT ![s] = run.source],
   pickables |-> run.pickables,
   steps |-> [world.steps EXCEPT ![s] = run.step],
   panicked |-> Panicked(run.step.outcome)]

\* Line 126: the loop over pick_source_query, from the source s on; a panic
\* ends it.
RECURSIVE RunSources(_, _, _, _, _, _)
RunSources(world, s, order, objs, events, wins) ==
  IF s > Len(world.sources) \/ world.panicked THEN world
  ELSE RunSources(AfterSource(world, s,
                              RunSource(world.sources[s],
                                        GenerateRay(world.sources[s], events, wins),
                                        order, world.pickables, objs,
                                        UnreadBy(world.sources[s], events))),
                  s + 1, order, objs, events, wins)

\* ---------------------------------------------------------------- actions
NoScan == [done |-> FALSE, pick_ray |-> Ray3dNew(<<0, 0, 0>>, <<0, 0, 1>>),
           mesh_to_world |-> IdentityTransform, indices |-> <<>>, result |-> None]

InitSource(s) ==
  [cast_method |-> IF s = 1 THEN CameraCursor(OnMouseEvent, EventReaderDefault)
                   ELSE IF s = 2 THEN CameraCursor(EveryFrame(<<1, 1>>), EventReaderDefault)
                   ELSE TransformMethod,
   ray |-> None,
   intersections |-> <<>>,
   camera |-> Some(MainCamera),
   transform |-> Some(IdentityTransform)]

InitObject(e) ==
  [visible |-> TRUE,
   bound_vol |-> IF e = 1 THEN BoundVolSphere(<<0, 0, 0>>, 3)
                 ELSE IF e = 2 THEN NoBoundVol ELSE BoundVolUnset,
   transform |-> [translation |-> <<0, 0, 3 * e>>, rot |-> 0, scale |-> <<1, 1, 1>>],
   mesh_handle |-> "tri"]

NoSteps == [s \in Srcs |-> NoStep]

NoCull == [done |-> FALSE, ray |-> Ray3dNew(<<0, 0, 0>>, <<0, 0, 1>>),
           object |-> InitObject(1), vertices |-> <<>>, survives |-> FALSE, hit |-> None]
NoPar == [ray |-> Ray3dNew(<<0, 0, 0>>, <<0, 0, 1>>), objs |-> [e \in Objs |-> InitObject(e)],
          order |-> <<>>, runs |-> <<>>]
NoCall == [fn |-> "none", pick_method |-> None, depth |-> 0, pc |-> "none", result |-> None]

\* The entities and resources other than the sources.
InitEntities ==
  /\ pickables = [e \in Objs |-> RayCastMeshDefault]
  /\ objects = [e \in Objs |-> InitObject(e)]
  /\ cursor = [old |-> <<>>, new |-> <<>>, event_count |-> 0]
  /\ windows = WindowIds
  /\ pc = "idle"
  /\ steps = NoSteps
  /\ envSteps = 0

InitWorld ==
  /\ sources = [s \in Srcs |-> InitSource(s)]
  /\ InitEntities

\* The world of update_raycast, with no call of a single function under way.
worldVars == <<sources, pickables, objects, cursor, windows, pc, steps, envSteps>>
Init == InitWorld /\ scan = NoScan /\ cull = NoCull /\ par = NoPar /\ call = NoCall

\* The state update_raycast leaves: the world after the loop, and a panic
\* ends the program.
AfterUpdate(world) ==
  /\ sources' = world.sources
  /\ pickables' = world.pickables
  /\ steps' = world.steps
  /\ pc' = IF world.panicked THEN "panicked" ELSE "idle"
  /\ UNCHANGED <<objects, cursor, windows, envSteps, probes>>

\* The scheduler runs update_raycast once; mesh_query yields the entities in
\* some order.
UpdateRaycast ==
  /\ pc = "idle"
  /\ \E order \in Orders :
       AfterUpdate(RunSources([sources |-> sources, pickables |-> pickables,
                               steps |-> NoSteps, panicked |-> FALSE],
                              1, order, objects, cursor, windows))

\* ------------------------------------------- the application, between runs
EnvStep ==
  /\ pc = "idle"
  /\ envSteps < MaxEnvSteps
  /\ envSteps' = envSteps + 1
  /\ steps' = NoSteps
  /\ UNCHANGED <<pickables, pc, probes>>

\* The window system sends a CursorMoved event.
SendCursorMoved(id, position) ==
  /\ EnvStep
  /\ cursor' = [cursor EXCEPT !.new = Append(@, [id |-> id, position |-> position]),
                              !.event_count = @ + 1]
  /\ UNCHANGED <<sources, objects, windows>>

\* Events::update: the older buffer is dropped.
EventsUpdate ==
  /\ EnvStep
  /\ Buffered(cursor) /= <<>>
  /\ cursor' = [cursor EXCEPT !.old = cursor.new, !.new = <<>>]
  /\ UNCHANGED <<sources, objects, windows>>

\* The application assigns the public field cast_method.
SetCastMethod(s, method) ==
  /\ s \in DOMAIN sources
  /\ EnvStep
  /\ method /= sources[s].cast_method
  /\ sources' = [sources EXCEPT ![s].cast_method = method]
  /\ UNCHANGED <<objects, cursor, windows>>

\* The application removes the Camera or the GlobalTransform of a source.
RemoveCamera(s) ==
  /\ s \in DOMAIN sources
  /\ EnvStep
  /\ sources[s].camera.some
  /\ sources' = [sources EXCEPT ![s].camera = None]
  /\ UNCHANGED <<objects, cursor, windows>>

RemoveTransform(s) ==
  /\ s \in DOMAIN sources
  /\ EnvStep
  /\ sources[s].transform.some
  /\ sources' = [sources EXCEPT ![s].transform = None]
  /\ UNCHANGED <<objects, cursor, windows>>

CloseWindow(id) ==
  /\ EnvStep
  /\ id \in windows
  /\ windows' = windows \ {id}
  /\ UNCHANGED <<sources, objects, cursor>>

SetVisible(e, visible) ==
  /\ EnvStep
  /\ objects[e].visible /= visible
  /\ objects' = [objects EXCEPT ![e].visible = visible]
  /\ UNCHANGED <<sources, cursor, windows>>

SetBoundVol(e, bound_vol) ==
  /\ EnvStep
  /\ objects[e].bound_vol /= bound_vol
  /\ objects' = [objects EXCEPT ![e].bound_vol = bound_vol]
  /\ UNCHANGED <<sources, cursor, windows>>

SetObjectTransform(e, transform) ==
  /\ EnvStep
  /\ objects[e].transform /= transform
  /\ objects' = [objects EXCEPT ![e].transform = transform]
  /\ UNCHANGED <<sources, cursor, windows>>

SetMeshHandle(e, mesh_handle) ==
  /\ EnvStep
  /\ objects[e].mesh_handle /= mesh_handle
  /\ objects' = [objects EXCEPT ![e].mesh_handle = mesh_handle]
  /\ UNCHANGED <<sources, cursor, windows>>

Next ==
  \/ UpdateRaycast
  \/ \E id \in WindowIds, position \in Positions : SendCursorMoved(id, position)
  \/ EventsUpdate
  \/ \E s \in Srcs, method \in Methods : SetCastMethod(s, method)
  \/ \E s \in Srcs : RemoveCamera(s)
  \/ \E s \in Srcs : RemoveTransform(s)
  \/ \E id \in WindowIds : CloseWindow(id)
  \/ \E e \in Objs, visible \in BOOLEAN : SetVisible(e, visible)
  \/ \E e \in Objs, bound_vol \in BoundVols : SetBoundVol(e, bound_vol)
  \/ \E e \in Objs, transform \in ObjectTransforms : SetObjectTransform(e, transform)
  \/ \E e \in Objs, mesh_handle \in Handles : SetMeshHandle(e, mesh_handle)

Spec == Init /\ [][Next]_vars

\* ------------------------------------------------ a world with one source
\* pick_source_query yields one entity: either of the two sources of Init.
InitOne ==
  /\ sources \in {<<InitSource(s)>> : s \in Srcs}
  /\ InitEntities
  /\ scan = NoScan /\ cull = NoCull /\ par = NoPar /\ call = NoCall

SpecOne == InitOne /\ [][Next]_vars

\* --------------------------------------- ray_mesh_intersection on its own
\* The vertex list of the scans: four triangles, three vertices each.  Seen
\* from a ray that starts at z = 0 and runs along +z: a small triangle at
\* z = 5, a large one at z = 1, a small one at z = 3 beside the z axis, and a
\* small one behind the origin.
ScanVertices ==
  << <<-2, -2, 5>>, <<2, -2, 5>>, <<0, 2, 5>>,
     <<-40, -40, 1>>, <<40, -40, 1>>, <<0, 40, 1>>,
     <<2, -2, 3>>, <<6, -2, 3>>, <<4, 2, 3>>,
     <<-2, -2, -4>>, <<2, -2, -4>>, <<0, 2, -4>> >>
ScanTriangles == 0..3
\* The index list of a sequence of triangles.
IndexList(triangles) ==
  [i \in 1..(3 * Len(triangles)) |-> 3 * triangles[(i + 2) \div 3] + ((i - 1) % 3)]
TriangleSeqs == UNION {[1..n -> ScanTriangles] : n \in 0..MaxTriangles}
\* Every order of up to MaxTriangles triangles, and each list with its last
\* index cut off.
ScanIndexLists ==
  {IndexList(t) : t \in TriangleSeqs}
    \cup {SubSeq(IndexList(t), 1, 3 * Len(t) - 1) : t \in TriangleSeqs \ {<<>>}}
ScanRays == {Ray3dNew(o, d) : o \in {<<0, 0, 0>>, <<4, 0, 0>>}, d \in {<<0, 0, 1>>, <<0, 0, 2>>}}
ScanTransforms ==
  {IdentityTransform,
   [translation |-> <<0, 0, 2>>, rot |-> 2, scale |-> <<1, 1, 1>>],
   [translation |-> <<0, 0, 0>>, rot |-> 0, scale |-> <<2, 2, 1>>]}

InitScan ==
  /\ InitWorld
  /\ scan \in {[done |-> FALSE, pick_ray |-> r, mesh_to_world |-> m, indices |-> i, result |-> None] :
                 r \in ScanRays, m \in ScanTransforms, i \in ScanIndexLists}
  /\ cull = NoCull /\ par = NoPar /\ call = NoCall

\* A call of ray_mesh_intersection.
RunScan ==
  /\ ~scan.done
  /\ scan' = [scan EXCEPT !.done = TRUE,
                          !.result = ray_mesh_intersection(scan.mesh_to_world, ScanVertices,
                                                           scan.pick_ray, scan.indices)]
  /\ UNCHANGED <<worldVars, cull, par, call>>

NextScan == RunScan

SpecScan == InitScan /\ [][NextScan]_vars

\* ------------------------------------------- the culling test on its own
\* One pickable entity: its local vertices (one triangle, indices 0, 1, 2)
\* and the sphere BoundVol caches for them.  The first shape lies around the
\* local origin, the second beside it.
CullShapes ==
  {[vertices |-> << <<-2, -2, 0>>, <<2, -2, 0>>, <<0, 2, 0>> >>,
    bound_vol |-> BoundVolSphere(<<0, 0, 0>>, 3)],
   [vertices |-> << <<8, -2, 0>>, <<12, -2, 0>>, <<10, 2, 0>> >>,
    bound_vol |-> BoundVolSphere(<<10, 0, 0>>, 3)]}
\* GlobalTransforms: a translation, with a quarter turn, with a non-uniform
\* scale, and with a uniform scale and a quarter turn.
CullTransforms ==
  {[translation |-> <<0, 0, 3>>, rot |-> 0, scale |-> <<1, 1, 1>>],
   [translation |-> <<-10, 0, 3>>, rot |-> 0, scale |-> <<1, 1, 1>>],
   [translation |-> <<0, -10, 3>>, rot |-> 1, scale |-> <<1, 1, 1>>],
   [translation |-> <<-20, 0, 3>>, rot |-> 0, scale |-> <<2, 1, 1>>],
   [translation |-> <<0, 0, 3>>, rot |-> 1, scale |-> <<2, 2, 2>>]}
CullRays ==
  {Ray3dNew(o, d) : o \in {<<0, 0, 0>>, <<10, 0, 0>>, <<0, 10, 0>>},
                    d \in {<<0, 0, 1>>, <<0, 0, 2>>}}

InitCull ==
  /\ InitWorld
  /\ cull \in {[done |-> FALSE, ray |-> r,
                object |-> [visible |-> v, bound_vol |-> shape.bound_vol, transform |-> t,
                            mesh_handle |-> "tri"],
                vertices |-> shape.vertices, survives |-> FALSE, hit |-> None] :
                 r \in CullRays, v \in BOOLEAN, shape \in CullShapes, t \in CullTransforms}
  /\ scan = NoScan /\ par = NoPar /\ call = NoCall

\* The culling closure (lines 248-276) and the mesh test (lines 310-315) on
\* the entity.
RunCull ==
  /\ ~cull.done
  /\ cull' = [cull EXCEPT !.done = TRUE,
                          !.survives = Survives(cull.object, cull.ray),
                          !.hit = ray_mesh_intersection(cull.object.transform, cull.vertices,
                                                        cull.ray, <<0, 1, 2>>)]
  /\ UNCHANGED <<worldVars, scan, par, call>>

NextCull == RunCull

SpecCull == InitCull /\ [][NextCull]_vars

\* ------------------------------------ the culling pass over several workers
\* Lines 244-279: par_iter hands the entities of culling_query to the workers
\* in batches, each worker keeps the survivors of its batch in their order,
\* and collect concatenates the workers' vectors.  A batch size stands for a
\* partitioning and a worker count, a permutation of the batches for the
\* order of the concatenation.
Batches(query, size) ==
  [k \in 1..((Len(query) + size - 1) \div size) |->
     SubSeq(query, (k - 1) * size + 1, Min2(k * size, Len(query)))]
\* Lines 248-276 on one batch: map and filter_map.
FilterMap(batch, objs, ray) == SelectSeq(batch, LAMBDA entity : Survives(objs[entity], ray))
Perms(n) == {f \in [1..n -> 1..n] : \A i, j \in 1..n : f[i] = f[j] => i = j}
RECURSIVE Flatten(_, _, _, _, _)
Flatten(vec, k, parts, perm, objs_ray) ==
  IF k > Len(parts) THEN vec
  ELSE Flatten(vec \o FilterMap(parts[perm[k]], objs_ray[1], objs_ray[2]),
               k + 1, parts, perm, objs_ray)
\* The Vec<Entity> that collect returns.
Collect(query, size, perm, objs, ray) ==
  Flatten(<<>>, 1, Batches(query, size), perm, <<objs, ray>>)
\* A variant that looks only at the head of the vector, which C12 tells apart.
Contains_Head(culled_vec, entity) == culled_vec /= <<>> /\ culled_vec[1] = entity

\* Line 282: culled_list.contains(&entity).
Contains(culled_vec, entity) == \E i \in DOMAIN culled_vec : culled_vec[i] = entity

\* The scenes of the runs: every entity has the triangle mesh; two entities
\* can be at the same distance from the ray's origin.
ParObjects ==
  {[visible |-> v, bound_vol |-> b, transform |-> [translation |-> t, rot |-> 0, scale |-> <<1, 1, 1>>],
    mesh_handle |-> "tri"] :
     v \in BOOLEAN, b \in {NoBoundVol, BoundVolSphere(<<0, 0, 0>>, 3)},
     t \in {<<0, 0, 3>>, <<0, 0, 6>>, <<32, 0, 3>>}}
ParRays == {Ray3dNew(<<0, 0, 0>>, <<0, 0, 1>>), Ray3dNew(<<32, 0, 0>>, <<0, 0, 2>>)}
MaxRuns == 2

InitPar ==
  /\ InitWorld
  /\ par \in {[ray |-> r, objs |-> o, order |-> order, runs |-> <<>>] :
                r \in ParRays, o \in [Objs -> ParObjects], order \in Orders}
  /\ scan = NoScan /\ cull = NoCull /\ call = NoCall

\* The source and the RayCastMesh components the next run of par starts from:
\* those the run before left.
ParSource ==
  IF par.runs = <<>> THEN RayCastSourceNew(TransformMethod)
  ELSE par.runs[Len(par.runs)].source
ParPickables ==
  IF par.runs = <<>> THEN [e \in Objs |-> RayCastMeshDefault]
  ELSE par.runs[Len(par.runs)].pickables
\* Lines 236-337 with the vector the culling pass collected.
ParRun(culled_vec) ==
  [culled_vec |-> culled_vec,
   source |-> CastSource(NoStep, ParSource, par.ray, par.order, ParPickables, par.objs,
                         {entity \in Objs : Contains(culled_vec, entity)}).source,
   pickables |-> CastSource(NoStep, ParSource, par.ray, par.order, ParPickables, par.objs,
                            {entity \in Objs : Contains(culled_vec, entity)}).pickables]

\* One more run on the same ray and the same entities, with some
\* partitioning of the culling pass.
RunPar(size, perm) ==
  /\ Len(par.runs) < MaxRuns
  /\ perm \in Perms(Len(Batches(par.order, size)))
  /\ par' = [par EXCEPT !.runs = Append(@, ParRun(Collect(par.order, size, perm, par.objs, par.ray)))]
  /\ UNCHANGED <<worldVars, scan, cull, call>>

NextPar ==
  \E size \in 1..NumObjects, perm \in UNION {Perms(n) : n \in 1..NumObjects} : RunPar(size, perm)

SpecPar == InitPar /\ [][NextPar]_vars

\* ------------------------------------------ the constructors of the source
\* The frames the thread's stack has room for.
MaxStackFrames == 100

\* A call of RayCastSource::new(pick_method) or of RayCastSource::default();
\* depth is the number of frames of the call on the stack.
InitCall ==
  /\ InitWorld
  /\ call \in {[fn |-> "new", pick_method |-> Some(m), depth |-> 1, pc |-> "called", result |-> None] :
                 m \in Methods}
            \cup {[fn |-> "default", pick_method |-> None, depth |-> 1, pc |-> "called",
                   result |-> None]}
  /\ scan = NoScan /\ cull = NoCull /\ par = NoPar

\* Lines 71-78: new builds the struct and returns it.
ReturnNew ==
  /\ call.fn = "new" /\ call.pc = "called"
  /\ call' = [call EXCEPT !.pc = "returned", !.depth = 0,
                          !.result = Some(RayCastSourceNew(call.pick_method.val))]
  /\ UNCHANGED <<worldVars, scan, cull, par>>

\* Lines 97-103: the struct expression takes its other fields from the base
\* ..Default::default(), which for this type is the function itself: the body
\* calls default() again before it can build the struct.
CallBase ==
  /\ call.fn = "default" /\ call.pc = "called"
  /\ call.depth < MaxStackFrames
  /\ call' = [call EXCEPT !.depth = @ + 1]
  /\ UNCHANGED <<worldVars, scan, cull, par>>

\* No frame returns, and the stack is finite.
StackOverflow ==
  /\ call.fn = "default" /\ call.pc = "called"
  /\ call.depth = MaxStackFrames
  /\ call' = [call EXCEPT !.pc = "stack_overflow"]
  /\ UNCHANGED <<worldVars, scan, cull, par>>

NextCall == ReturnNew \/ CallBase \/ StackOverflow

SpecCall == InitCall /\ [][NextCall]_vars

\* ============================================================== the claims
\* In a state that directly follows a run of update_raycast, steps holds the
\* record of that run (any change by the application clears it), and
\* sources, pickables and objects are what the run left and read.
Processed(s) == steps[s].outcome /= "none"
\* The run generated a ray for the source s.
RayGenerated(s) == steps[s].outcome \in {"cast", "panic_mesh"}
Entities(list) == {list[i][1] : i \in DOMAIN list}
Entries(list) == {list[i] : i \in DOMAIN list}
SortedByDistance(list) ==
  \A i \in 1..(Len(list) - 1) : list[i][2].distance <= list[i + 1][2].distance
PositionIn(order, entity) == CHOOSE i \in DOMAIN order : order[i] = entity

\* C1: the intersection list of every source is in non-decreasing order of
\* distance, in every state a run of update_raycast leaves (a run that
\* panics in the mesh pass leaves none), whatever the order in which the
\* entities were visited and pushed.
C1_SortedByDistance ==
  \A s \in Srcs : steps[s].outcome /= "panic_mesh" => SortedByDistance(sources[s].intersections)

\* A run pushed a farther entity before a nearer one, and the list is in
\* order.
C1_Witness ==
  \E s \in Srcs :
    /\ steps[s].outcome = "cast"
    /\ Len(sources[s].intersections) >= 2
    /\ sources[s].intersections[1][2].distance < sources[s].intersections[2][2].distance
    /\ PositionIn(steps[s].order, sources[s].intersections[2][1])
         < PositionIn(steps[s].order, sources[s].intersections[1][1])

\* C2 as stated: after a run, the list of every source the run processed,
\* whatever its cast method and update policy, holds only pairs computed
\* (pushed) during that run.
C2_RebuiltByEveryUpdate ==
  \A s \in Srcs :
    steps[s].outcome \in {"cast", "skipped"}
      => Entries(sources[s].intersections) \subseteq steps[s].pushed

\* C2 as amended: after a run, the list of every source for which the run
\* generated a ray holds exactly the pairs pushed during that run, each once;
\* a source the run skipped (line 160) keeps the list it had.
C2_RebuiltWhenRayGenerated ==
  \A s \in Srcs :
    /\ steps[s].outcome = "cast"
         => /\ Entries(sources[s].intersections) = steps[s].pushed
            /\ Len(sources[s].intersections) = Cardinality(steps[s].pushed)
    /\ steps[s].outcome = "skipped"
         => sources[s].intersections = steps[s].before.val.intersections

\* A run rebuilt a list that held a pair the run did not compute again.
C2_Witness ==
  \E s \in Srcs :
    /\ steps[s].outcome = "cast"
    /\ sources[s].intersections /= <<>>
    /\ \E old \in Entries(steps[s].before.val.intersections) :
         old \notin Entries(sources[s].intersections)

\* The hit the run produced for the source s on the entity e, or None.
HitThisUpdate(s, e) ==
  IF \E p \in steps[s].pushed : p[1] = e
  THEN Some((CHOOSE p \in steps[s].pushed : p[1] = e)[2])
  ELSE None

\* C3: after the loop body of a source for which a ray was generated, the
\* stored intersection of every pickable entity is the hit this update
\* produced on it, or None if it produced none (also for an entity that is
\* culled, not visible or without a resolvable mesh).
C3_StoredIsOfThisUpdate ==
  \A s \in Srcs :
    steps[s].outcome = "cast"
      => \A e \in Objs : intersection(steps[s].pickables_after.val[e]) = HitThisUpdate(s, e)

\* The triangles of the scan, and those the ray intersects.
ScanCount == Len(scan.indices) \div 3
ScanTriangleAt(k) == WorldTriangle(scan.mesh_to_world, ScanVertices, scan.indices, k)
ScanHit(k) == ray_triangle_intersection(scan.pick_ray, ScanTriangleAt(k))
ScanHits == {k \in 1..ScanCount : ScanHit(k).some}
ScanDistance(k) == Abs(Length(VSub(ScanHit(k).val, scan.pick_ray.origin)))

\* C4: for an index list whose length is a multiple of three, in any order of
\* the triangles, ray_mesh_intersection returns None exactly when the ray
\* intersects no triangle, and otherwise a hit of the least distance among the
\* triangles the ray intersects.
C4_ClosestOfAllTriangles ==
  (scan.done /\ Len(scan.indices) % 3 = 0)
    => /\ scan.result.some <=> ScanHits /= {}
       /\ scan.result.some
            => /\ \E k \in ScanHits : /\ scan.result.val.distance = ScanDistance(k)
                                      /\ scan.result.val.origin = ScanHit(k).val
                                      /\ scan.result.val.triangle = ScanTriangleAt(k)
               /\ \A k \in ScanHits : scan.result.val.distance <= ScanDistance(k)

\* C5: intersect_list is None exactly for an empty list and otherwise the
\* whole list; intersect_top is None exactly for an empty list and otherwise
\* the first entry, and no entry of the list is nearer than it.
C5_Accessors ==
  \A s \in Srcs :
    steps[s].outcome /= "panic_mesh"
      => /\ ~intersect_list(sources[s]).some <=> sources[s].intersections = <<>>
         /\ intersect_list(sources[s]).some
              => intersect_list(sources[s]).val = sources[s].intersections
         /\ ~intersect_top(sources[s]).some <=> sources[s].intersections = <<>>
         /\ intersect_top(sources[s]).some
              => /\ intersect_top(sources[s]).val = sources[s].intersections[1]
                 /\ \A i \in DOMAIN sources[s].intersections :
                      intersect_top(sources[s]).val[2].distance
                        <= sources[s].intersections[i][2].distance

\* A source has a top entry that is strictly nearer than another entry.
C5_Witness ==
  \E s \in Srcs :
    /\ Processed(s)
    /\ intersect_top(sources[s]).some
    /\ \E i \in DOMAIN sources[s].intersections :
         intersect_top(sources[s]).val[2].distance < sources[s].intersections[i][2].distance

\* The positions of the events of a sequence that are for a window.
ForWindow(events, id) == SelectSeq(events, LAMBDA ev : ev.id = id)
IsEveryFrame(source) ==
  source.cast_method.kind = "CameraCursor" /\ source.cast_method.update_picks.kind = "EveryFrame"
IsOnMouseEvent(source) ==
  source.cast_method.kind = "CameraCursor" /\ source.cast_method.update_picks.kind = "OnMouseEvent"

\* C6: for a CameraCursor source with EveryFrame, the position the ray is
\* built from is that of the newest unread event for the camera's window when
\* there is one (also when a newer event for another window follows it), the
\* cached position otherwise; and the cached position after the update is
\* the position used.
C6_NewestEventOfTheWindow ==
  \A s \in Srcs :
    (RayGenerated(s) /\ IsEveryFrame(steps[s].before.val))
      => LET mine == ForWindow(steps[s].unread, steps[s].before.val.camera.val.window)
             expected == IF mine /= <<>> THEN mine[Len(mine)].position
                         ELSE steps[s].before.val.cast_method.update_picks.cached_pos
         IN /\ steps[s].pos = Some(expected)
            /\ sources[s].cast_method.update_picks.cached_pos = expected

\* None of the events the reader of the source had not seen is for the
\* window of its camera.
NoNewEventForWindow(s) ==
  ForWindow(steps[s].unread, steps[s].before.val.camera.val.window) = <<>>

\* C7: a run that comes to a CameraCursor source with OnMouseEvent (and a
\* Camera) when no unread event is for the camera's window skips it: its ray
\* and its list stay, no RayCastMesh changes, there is no panic, and the run
\* goes on to the next source.
C7_SkipLeavesResults ==
  \A s \in Srcs :
    (/\ Processed(s)
     /\ IsOnMouseEvent(steps[s].before.val)
     /\ steps[s].before.val.camera.some
     /\ NoNewEventForWindow(s))
      => /\ steps[s].outcome = "skipped"
         /\ sources[s].ray = steps[s].before.val.ray
         /\ sources[s].intersections = steps[s].before.val.intersections
         /\ steps[s].pickables_after = steps[s].pickables_before
         /\ s < NumSources => Processed(s + 1)

\* A skipped source keeps a ray and a list of an earlier run, and the next
\* source is cast in the same run.
C7_Witness ==
  \E s \in Srcs :
    /\ s < NumSources
    /\ steps[s].outcome = "skipped"
    /\ NoNewEventForWindow(s)
    /\ sources[s].ray.some
    /\ sources[s].intersections /= <<>>
    /\ steps[s + 1].outcome = "cast"

\* The source lacks a component its cast method requires.
LacksRequired(source) ==
  \/ source.cast_method.kind \in {"CameraCursor", "CameraScreenSpace"}
       /\ (~source.camera.some \/ ~source.transform.some)
  \/ source.cast_method.kind = "Transform" /\ ~source.transform.some

\* C8 as stated: every run that processes a source lacking a required
\* component panics, for every update policy and every history of events.
C8_AlwaysPanics ==
  \A s \in Srcs :
    (Processed(s) /\ LacksRequired(steps[s].before.val)) => steps[s].outcome = "panic_ray"

\* The source is skipped before its GlobalTransform is asked for: OnMouseEvent,
\* a Camera, and no latest unread event for the camera's window.
SkippedBeforeTransform(s) ==
  /\ IsOnMouseEvent(steps[s].before.val)
  /\ steps[s].before.val.camera.some
  /\ (steps[s].unread = <<>>
        \/ steps[s].unread[Len(steps[s].unread)].id /= steps[s].before.val.camera.val.window)

\* C8 as amended: a run that processes a source lacking a required component
\* panics, except that a CameraCursor source with OnMouseEvent that has a
\* Camera and no GlobalTransform is skipped, without a panic, when its latest
\* unread event is absent or for another window.
C8_PanicsUnlessSkipped ==
  \A s \in Srcs :
    (Processed(s) /\ LacksRequired(steps[s].before.val))
      => IF SkippedBeforeTransform(s) THEN steps[s].outcome = "skipped"
         ELSE steps[s].outcome = "panic_ray" /\ pc = "panicked"

\* A run panicked on a Transform source without a GlobalTransform.
C8_Witness ==
  \E s \in Srcs :
    /\ Processed(s)
    /\ steps[s].before.val.cast_method.kind = "Transform"
    /\ LacksRequired(steps[s].before.val)
    /\ steps[s].outcome = "panic_ray"
    /\ pc = "panicked"

\* The entity has no cached bounding sphere.
NoSphere(object) == ~object.bound_vol.some \/ ~object.bound_vol.val.sphere.some

\* C9 as stated: in a run that generates a ray, every pickable entity without
\* a cached sphere is in the candidate list and reaches the mesh pass.
C9_NoSphereAlwaysCandidate ==
  \A s \in Srcs :
    RayGenerated(s)
      => \A e \in Objs :
           NoSphere(objects[e]) => e \in steps[s].culled_list /\ e \in steps[s].visited

\* C9 as amended: in a run that generates a ray, every visible pickable entity
\* without a cached sphere is in the candidate list, and it reaches the mesh
\* pass when the mesh pass does not panic.
C9_VisibleNoSphereIsCandidate ==
  \A s \in Srcs :
    RayGenerated(s)
      => \A e \in Objs :
           (NoSphere(objects[e]) /\ objects[e].visible)
             => /\ e \in steps[s].culled_list
                /\ steps[s].outcome = "cast" => e \in steps[s].visited

\* An entity without a sphere reached the mesh pass and was tested although
\* the ray does not hit it.
C9_Witness ==
  \E s \in Srcs, e \in Objs :
    /\ steps[s].outcome = "cast"
    /\ NoSphere(objects[e])
    /\ e \in steps[s].tested
    /\ e \notin Entities(sources[s].intersections)

\* C10: in a run that generates a ray, an entity that is not visible is not in
\* the candidate list, is not tested, and has no entry in the list the run
\* builds.
C10_InvisibleExcluded ==
  \A s \in Srcs :
    RayGenerated(s)
      => \A e \in Objs :
           ~objects[e].visible
             => /\ e \notin steps[s].culled_list
                /\ e \notin steps[s].visited
                /\ e \notin steps[s].tested
                /\ e \notin Entities(sources[s].intersections)

\* An entity the same ray hit in the run before is now not visible, and the
\* run left it out.
C10_Witness ==
  \E s \in Srcs, e \in Objs :
    /\ steps[s].outcome = "cast"
    /\ ~objects[e].visible
    /\ sources[s].ray = steps[s].before.val.ray
    /\ e \in Entities(steps[s].before.val.intersections)
    /\ e \notin Entities(sources[s].intersections)

\* The sphere encloses every local vertex.
Encloses(bound_vol, vertices) ==
  \A i \in DOMAIN vertices :
    LengthSquared(VSub(vertices[i], bound_vol.val.sphere.val.origin))
      <= bound_vol.val.sphere.val.radius * bound_vol.val.sphere.val.radius
\* The ray intersects the world-space triangle of the entity.
CullTriangleHit ==
  ray_triangle_intersection(cull.ray,
                            WorldTriangle(cull.object.transform, cull.vertices, <<0, 1, 2>>, 1)).some

\* C11: for every ray and every visible entity whose cached sphere encloses
\* its local vertices, under any transform of translation, rotation and scale,
\* if the ray intersects the entity's world-space triangle the entity survives
\* the culling, so the hit with culling is the hit without culling.
C11_CullingKeepsEveryHit ==
  (/\ cull.done
   /\ cull.object.visible
   /\ Encloses(cull.object.bound_vol, cull.vertices)
   /\ CullTriangleHit)
    => /\ cull.survives
       /\ (IF cull.survives THEN cull.hit ELSE None) = cull.hit

\* C12: for a fixed ray, fixed entities and a fixed iteration order, the list
\* of the source is the same for every partitioning of the culling pass over
\* the workers and every order in which their survivors are concatenated (it
\* is the list the set of the survivors gives), and a second run on the same
\* inputs gives the list of the first.
C12_ListIndependentOfPartition ==
  /\ \A i \in DOMAIN par.runs :
       par.runs[i].source.intersections
         = CastSource(NoStep, RayCastSourceNew(TransformMethod), par.ray, par.order,
                      [e \in Objs |-> RayCastMeshDefault], par.objs,
                      CulledList(par.objs, par.ray)).source.intersections
  /\ \A i, j \in DOMAIN par.runs :
       par.runs[i].source.intersections = par.runs[j].source.intersections

\* Two runs whose culling passes collected the survivors in different orders
\* gave the same list of two hits.
C12_Witness ==
  /\ Len(par.runs) = 2
  /\ par.runs[1].culled_vec /= par.runs[2].culled_vec
  /\ Len(par.runs[1].source.intersections) = 2
  /\ par.runs[1].source.intersections = par.runs[2].source.intersections

\* The handle resolves to a mesh that is not a triangle list, or has no
\* positions, or positions that are not Float3, or no index list.
Malformed(mesh_handle) ==
  /\ MeshesGet(mesh_handle).some
  /\ \/ MeshesGet(mesh_handle).val.topology /= "TriangleList"
     \/ ~MeshesGet(mesh_handle).val.position.some
     \/ MeshesGet(mesh_handle).val.position.val.format /= "Float3"
     \/ ~MeshesGet(mesh_handle).val.indices.some

\* C13: in a run that generates a ray for a source, if a candidate entity has
\* a malformed mesh the run ends in a panic; no result is recorded for that
\* entity and the run does not complete.
C13_MalformedMeshPanics ==
  \A s \in Srcs :
    RayGenerated(s)
      => \A e \in steps[s].culled_list :
           Malformed(objects[e].mesh_handle)
             => /\ steps[s].outcome = "panic_mesh"
                /\ pc = "panicked"
                /\ e \notin steps[s].tested
                /\ steps[s].pickables_after.val[e] = steps[s].pickables_before.val[e]

\* A run tested one entity, came to an entity with a malformed mesh, and
\* panicked.
C13_Witness ==
  \E s \in Srcs, e \in Objs :
    /\ steps[s].outcome = "panic_mesh"
    /\ e \in steps[s].visited
    /\ Malformed(objects[e].mesh_handle)
    /\ steps[s].tested /= {}
    /\ pc = "panicked"

\* The number of triangles a mesh holds for the scan: the whole chunks of
\* three indices of a mesh with Float3 positions and an index list.
TriangleCount(mesh) ==
  IF mesh.position.some /\ mesh.position.val.format = "Float3" /\ mesh.indices.some
  THEN Len(mesh.indices.val.vec) \div 3 ELSE 0
\* The ray intersects a triangle of the entity's mesh.
HitsATriangle(ray, object) ==
  /\ MeshesGet(object.mesh_handle).some
  /\ \E k \in 1..TriangleCount(MeshesGet(object.mesh_handle).val) :
       ray_triangle_intersection(
         ray,
         WorldTriangle(object.transform,
                       MeshesGet(object.mesh_handle).val.position.val.values,
                       MeshesGet(object.mesh_handle).val.indices.val.vec, k)).some

\* C14: after a run that generates a ray for a source, if the ray intersects
\* no triangle of any candidate entity the list of the source is empty and
\* intersect_top and intersect_list return None, whatever the list held
\* before.
C14_MissEmptiesList ==
  \A s \in Srcs :
    (/\ RayGenerated(s)
     /\ \A e \in steps[s].culled_list : ~HitsATriangle(sources[s].ray.val, objects[e]))
      => /\ sources[s].intersections = <<>>
         /\ intersect_top(sources[s]) = None
         /\ intersect_list(sources[s]) = None

\* A source whose list held a hit was cast again, its ray was tested against
\* a candidate and missed, and the list is empty.
C14_Witness ==
  \E s \in Srcs :
    /\ steps[s].outcome = "cast"
    /\ steps[s].before.val.intersections /= <<>>
    /\ steps[s].tested /= {}
    /\ \A e \in steps[s].culled_list : ~HitsATriangle(sources[s].ray.val, objects[e])
    /\ intersect_top(sources[s]) = None

\* C15: in a world with one source, in every state, every entry (e, I) of the
\* source's list has RayCastMesh(e).intersection = Some(I), and a candidate
\* that the run just made tested without a hit has the stored intersection
\* None and no entry in the list.
C15_ListAgreesWithStored ==
  \A s \in DOMAIN sources :
    /\ \A i \in DOMAIN sources[s].intersections :
         intersection(pickables[sources[s].intersections[i][1]])
           = Some(sources[s].intersections[i][2])
    /\ RayGenerated(s)
         => \A e \in steps[s].tested :
              (~\E p \in steps[s].pushed : p[1] = e)
                => /\ intersection(pickables[e]) = None
                   /\ e \notin Entities(sources[s].intersections)

\* The one source has an entry in its list, and a candidate that had a stored
\* hit was tested again without a hit.
C15_Witness ==
  /\ Len(sources) = 1
  /\ steps[1].outcome = "cast"
  /\ sources[1].intersections /= <<>>
  /\ \E e \in steps[1].tested :
       /\ e \notin Entities(sources[1].intersections)
       /\ intersection(steps[1].pickables_before.val[e]).some
       /\ intersection(pickables[e]) = None

\* C16: a call of RayCastSource::default() does not run out of stack, and what
\* it returns is a source with the method CameraCursor, EveryFrame at (0, 0),
\* no ray and an empty list, for which intersect_list and intersect_top are
\* None: the ray and the list of RayCastSource::new.
C16_DefaultReturnsEmptySource ==
  call.fn = "default"
    => /\ call.pc /= "stack_overflow"
       /\ call.pc = "returned"
            => /\ call.result
                    = Some(RayCastSourceNew(CameraCursor(EveryFrame(<<0, 0>>), EventReaderDefault)))
               /\ intersect_list(call.result.val) = None
               /\ intersect_top(call.result.val) = None

\* The handle resolves to a mesh that can be read and whose index list has a
\* length that is not a multiple of three.
OddIndexList(mesh_handle) ==
  /\ MeshesGet(mesh_handle).some
  /\ ~Malformed(mesh_handle)
  /\ Len(MeshesGet(mesh_handle).val.indices.val.vec) % 3 /= 0

\* C17: an index list whose length is not a multiple of three is no fatal
\* error: a candidate with such a list that the mesh loop comes to is tested,
\* its stored intersection is None afterwards and the list has no entry for
\* it; and when no candidate has a malformed mesh the run casts the source
\* without a panic and comes to every candidate.
C17_OddIndexListIsNoHit ==
  \A s \in Srcs :
    RayGenerated(s)
      => /\ \A e \in steps[s].visited :
              OddIndexList(objects[e].mesh_handle)
                => /\ e \in steps[s].tested
                   /\ intersection(steps[s].pickables_after.val[e]) = None
                   /\ e \notin Entities(sources[s].intersections)
         /\ (\A e \in steps[s].culled_list : ~Malformed(objects[e].mesh_handle))
              => steps[s].outcome = "cast" /\ steps[s].visited = steps[s].culled_list

\* The ray runs through the whole triangle of a candidate whose index list
\* has four entries: its stored hit of the run before is replaced by None, and
\* an entity that comes later in the loop is hit and pushed.
C17_Witness ==
  \E s \in Srcs, e \in Objs, later \in Objs :
    /\ steps[s].outcome = "cast"
    /\ e \in steps[s].tested
    /\ OddIndexList(objects[e].mesh_handle)
    /\ HitsATriangle(sources[s].ray.val, objects[e])
    /\ intersection(steps[s].pickables_before.val[e]).some
    /\ intersection(steps[s].pickables_after.val[e]) = None
    /\ PositionIn(steps[s].order, e) < PositionIn(steps[s].order, later)
    /\ later \in Entities(sources[s].intersections)

\* C18: in every state no entity has two entries in the list of a source and
\* the list is no longer than the number of pickable entities; after a run
\* that generated a ray for the source the list is no longer than the
\* candidate list of that run, and every entry is of a candidate.
C18_OneEntryPerCandidate ==
  \A s \in Srcs :
    /\ \A i, j \in DOMAIN sources[s].intersections :
         sources[s].intersections[i][1] = sources[s].intersections[j][1] => i = j
    /\ Len(sources[s].intersections) <= NumObjects
    /\ RayGenerated(s)
         => /\ Len(sources[s].intersections) <= Cardinality(steps[s].culled_list)
            /\ Entities(sources[s].intersections) \subseteq steps[s].culled_list

\* A list of two entries was rebuilt by a run with one candidate, and has one
\* entry.
C18_Witness ==
  \E s \in Srcs :
    /\ steps[s].outcome = "cast"
    /\ Len(steps[s].before.val.intersections) = 2
    /\ Cardinality(steps[s].culled_list) = 1
    /\ Len(sources[s].intersections) = 1

\* What a run with the iteration order order leaves of a source if the source
\* is the only one: the loop body on the source as it is, with the events,
\* windows, entities and RayCastMesh components as they are.
Alone(source, order) ==
  RunSource(source, GenerateRay(source, cursor, windows), order, pickables, objects,
            UnreadBy(source, cursor)).source
\* The hit a step pushed for the entity e, or None.
HitOf(step, e) ==
  IF \E p \in step.pushed : p[1] = e
  THEN Some((CHOOSE p \in step.pushed : p[1] = e)[2])
  ELSE None
\* The last source of a set of sources in the order of the run.
LastOf(set) == CHOOSE s \in set : \A t \in set : t <= s

====
